---- MODULE Spec2Model ----
(***************************************************************************)
(* A model of the command-limits crate (src/src/lib.rs, src/src/unix.rs)   *)
(* and of its xargs example (src/examples/xargs.rs).                       *)
(*                                                                         *)
(* Byte strings (OsString, Vec<u8>) are sequences of small naturals.       *)
(* Option<NonZeroUsize> is a natural, 0 standing for None, which is how    *)
(* NonZeroUsize::new builds it (unix.rs:73).  Option<OsString> is a        *)
(* sequence of length 0 (None) or 1 (Some(v)).  The sizes of the model are *)
(* far from usize::MAX, so additions are exact, as they are in the code.   *)
(***************************************************************************)
EXTENDS Integers, Sequences, FiniteSets, TLC

VARIABLES
    amb,       \* the ambient environment (env::vars_os), fixed during a run
    b,         \* the CommandBuilder the accountant operations act on
    op,        \* the last accountant call: its name and its inputs
    res,       \* what that call returned: "Ok" or the Error
    envCalls,  \* number of calls so far that replaced or edited the environment
    before,    \* the environment side of the builder before the last call
    basecmd,   \* xargs: the baseline builder
    cmd,       \* xargs: the builder of the current batch
    oflag,     \* xargs: -0, the strict-delimiter tokenizer
    stream,    \* xargs: the tokens the iterator yields, in order
    streamEnd, \* xargs: how the iterator ends: "eof" or "error"
    pos,       \* xargs: number of tokens the iterator has yielded
    item,      \* xargs: Option<Vec<u8>>, the token in hand
    pending,   \* xargs: the current batch holds an accepted token
    run_now,   \* xargs: the current batch must be executed
    rc,        \* xargs: the recorded result code
    pc,        \* xargs: where run() is: "loop" or how it returned
    ret,       \* xargs: what run() returned, once it has
    executed,  \* xargs: the command of every executor invocation, in order
    statuses,  \* xargs: the exit status of every executor invocation
    input,     \* tokenizer: the bytes of standard input
    reader,    \* tokenizer: the BufReader of stdin, as offsets into input
    rl,        \* tokenizer: the locals of the running read_like_xargs call
    yielded,   \* tokenizer: the tokens returned so far, in order
    tpc,       \* tokenizer: "call", "while", or how the iterator ended
    target_os,  \* default limits: "linux" or another unix
    sc_arg_max, \* default limits: what sysconf(_SC_ARG_MAX) returns
    dflt        \* default limits: what CommandLimits::default() returned

vars == <<amb, b, op, res, envCalls, before, basecmd, cmd, oflag, stream, streamEnd, pos, item,
          pending, run_now, rc, pc, ret, executed, statuses,
          input, reader, rl, yielded, tpc, target_os, sc_arg_max, dflt>>

tvars == <<input, reader, rl, yielded, tpc>>
dvars == <<target_os, sc_arg_max, dflt>>
avars == <<amb, b, op, res, envCalls, before>>
xvars == <<basecmd, cmd, oflag, stream, streamEnd, pos, item, pending,
           run_now, rc, pc, ret, executed, statuses>>

----------------------------------------------------------------------------
(* Bounds of the model *)

\* the accountant is explored while argv holds at most this many entries
MaxArgv == 3
\* and for at most this many calls that replace or edit the environment
MaxEnvCalls == 2
\* longest token stream of mixed tokens
MaxStream == 3
\* longest stream of equal one-byte tokens
MaxUniform == 10

----------------------------------------------------------------------------
(* Byte costs: src/src/unix.rs *)

\* mem::size_of::<*const c_char>() on a 64-bit target
PtrSize == 8

RECURSIVE SumSeq(_)
SumSeq(s) == IF s = <<>> THEN 0 ELSE Head(s) + SumSeq(Tail(s))

RECURSIVE SumSet(_, _)
SumSet(S, f) ==
    IF S = {} THEN 0
    ELSE LET x == CHOOSE y \in S : TRUE IN f[x] + SumSet(S \ {x}, f)

osstr_len(s) == Len(s)

arg_len(a) == PtrSize + osstr_len(a) + 1

env_key_len(k) == PtrSize + osstr_len(k) + 1

env_val_len(v) == osstr_len(v) + 1

env_pair_len(k, v) == env_key_len(k) + env_val_len(v)

saturating_sub(x, y) == IF x < y THEN 0 ELSE x - y

----------------------------------------------------------------------------
(* Results *)

Ok(v) == [ok |-> TRUE, val |-> v, err |-> "Ok"]
Err(e) == [ok |-> FALSE, val |-> 0, err |-> e]

\* run() has not returned
Running == [ok |-> FALSE, val |-> 0, err |-> "running"]

----------------------------------------------------------------------------
(* CommandBuilder: src/src/lib.rs *)

\* sum of env_pair_len over env::vars_os()
vars_os_size(a) == SumSet(DOMAIN a, [k \in DOMAIN a |-> env_pair_len(k, a[k])])

check_env_size(bd, size) ==
    IF bd.limits.env_size # 0
    THEN IF bd.limits.env_size < bd.env_size + size
         THEN Err("InsufficientSpace") ELSE Ok(0)
    ELSE IF bd.limits.arg_size < bd.arg_size + bd.env_size + size
         THEN Err("InsufficientSpace") ELSE Ok(0)

\* individual_env_size.or(env_size).unwrap_or(arg_size)
env_ceiling(l) ==
    IF l.individual_env_size # 0 THEN l.individual_env_size
    ELSE IF l.env_size # 0 THEN l.env_size ELSE l.arg_size

check_env_pair(bd, key, val) ==
    LET len == env_pair_len(key, val) IN
    IF env_ceiling(bd.limits) < len THEN Err("TooLarge")
    ELSE IF bd.limits.env_count # 0
            /\ bd.limits.env_count <= Cardinality(DOMAIN bd.env)
         THEN Err("TooMany")
    ELSE IF check_env_size(bd, len).ok THEN Ok(len)
         ELSE check_env_size(bd, len)

\* individual_arg_size.unwrap_or(arg_size)
arg_ceiling(l) ==
    IF l.individual_arg_size # 0 THEN l.individual_arg_size ELSE l.arg_size

\* check_arg with the count checked before the size of the argument
check_arg_count_first(bd, a) ==
    LET len == arg_len(a) IN
    IF bd.limits.arg_count # 0 /\ bd.limits.arg_count <= Len(bd.argv)
    THEN Err("TooMany")
    ELSE IF arg_ceiling(bd.limits) < len THEN Err("TooLarge")
    ELSE IF bd.limits.env_size # 0
         THEN IF bd.limits.arg_size < bd.arg_size + len
              THEN Err("InsufficientSpace") ELSE Ok(len)
         ELSE IF bd.limits.arg_size < bd.arg_size + bd.env_size + len
              THEN Err("InsufficientSpace") ELSE Ok(len)

\* check_arg refusing an argument that fills the budget exactly
check_arg_off_by_one(bd, a) ==
    LET len == arg_len(a) IN
    IF arg_ceiling(bd.limits) < len THEN Err("TooLarge")
    ELSE IF bd.limits.arg_count # 0 /\ bd.limits.arg_count <= Len(bd.argv)
         THEN Err("TooMany")
    ELSE IF bd.limits.env_size # 0
         THEN IF bd.limits.arg_size <= bd.arg_size + len
              THEN Err("InsufficientSpace") ELSE Ok(len)
         ELSE IF bd.limits.arg_size <= bd.arg_size + bd.env_size + len
              THEN Err("InsufficientSpace") ELSE Ok(len)

check_arg(bd, a) ==
    LET len == arg_len(a) IN
    IF arg_ceiling(bd.limits) < len THEN Err("TooLarge")
    ELSE IF bd.limits.arg_count # 0 /\ bd.limits.arg_count <= Len(bd.argv)
         THEN Err("TooMany")
    ELSE IF bd.limits.env_size # 0
         THEN IF bd.limits.arg_size < bd.arg_size + len
              THEN Err("InsufficientSpace") ELSE Ok(len)
         ELSE IF bd.limits.arg_size < bd.arg_size + bd.env_size + len
              THEN Err("InsufficientSpace") ELSE Ok(len)

\* every builder operation yields the builder it leaves and what it returned
Ret(bd, e) == [b |-> bd, res |-> e]

arg(bd, a) ==
    LET c == check_arg(bd, a) IN
    IF ~c.ok THEN Ret(bd, c.err)
    ELSE Ret([bd EXCEPT !.arg_size = @ + c.val, !.argv = Append(@, a)], "Ok")

\* args.iter().map(|arg| self.check_arg(arg)).sum::<Result<usize>>():
\* every element is checked against the builder as it is before the call;
\* the sum stops at the first Err and yields it
RECURSIVE sum_checks(_, _)
sum_checks(bd, list) ==
    IF list = <<>> THEN Ok(0)
    ELSE LET c == check_arg(bd, Head(list)) IN
         IF ~c.ok THEN c
         ELSE LET r == sum_checks(bd, Tail(list)) IN
              IF ~r.ok THEN r ELSE Ok(c.val + r.val)

\* args pushing each argument as soon as it is checked
RECURSIVE args_commit_prefix(_, _)
args_commit_prefix(bd, list) ==
    IF list = <<>> THEN [b |-> bd, res |-> "Ok"]
    ELSE LET c == check_arg(bd, Head(list)) IN
         IF ~c.ok THEN [b |-> bd, res |-> c.err]
         ELSE args_commit_prefix(
                  [bd EXCEPT !.arg_size = @ + c.val,
                             !.argv = Append(@, Head(list))], Tail(list))

args(bd, list) ==
    LET s == sum_checks(bd, list) IN
    IF ~s.ok THEN Ret(bd, s.err)
    ELSE Ret([bd EXCEPT !.arg_size = @ + s.val, !.argv = @ \o list], "Ok")

\* BTreeMap::new / BTreeMap::clear
EmptyMap == [x \in {} |-> <<>>]

\* BTreeMap::insert
map_insert(m, k, v) == [x \in DOMAIN m \cup {k} |-> IF x = k THEN v ELSE m[x]]

\* BTreeMap::remove
map_remove(m, k) == [x \in DOMAIN m \ {k} |-> m[x]]

\* the exchange of an old value for a new one, lib.rs:268-274 and 279-285
exchange(bd, old, new) ==
    LET old_size == env_val_len(old)
        new_size == env_val_len(new)
        c == IF old_size < new_size
             THEN check_env_size(bd, new_size - old_size) ELSE Ok(0)
    IN IF ~c.ok THEN Ret(bd, c.err)
       ELSE Ret([bd EXCEPT !.env_size = saturating_sub(@, old_size)], "Ok")

env(bd, a, key, value) ==
    LET r == IF key \in DOMAIN bd.env
             THEN IF bd.env[key] # <<>>
                  THEN exchange(bd, bd.env[key][1], value)
                  ELSE Ret(bd, "Ok")
             ELSE IF key \in DOMAIN a
                  THEN exchange(bd, a[key], value)
                  ELSE LET c == check_env_pair(bd, key, value) IN
                       IF ~c.ok THEN Ret(bd, c.err)
                       ELSE Ret([bd EXCEPT !.env_size = @ + c.val], "Ok")
    IN IF r.res # "Ok" THEN r
       ELSE Ret([r.b EXCEPT !.env = map_insert(@, key, <<value>>)], "Ok")

\* env_remove giving back only the value size of an override it removes
env_remove_value_only(bd, a, key) ==
    IF key \in DOMAIN bd.env /\ bd.env[key] = <<>> THEN bd
    ELSE LET sized ==
                 IF key \in DOMAIN bd.env
                 THEN [bd EXCEPT !.env_size =
                          saturating_sub(@, env_val_len(bd.env[key][1]))]
                 ELSE IF ~bd.clear_env /\ key \in DOMAIN a
                      THEN [bd EXCEPT !.env_size =
                               saturating_sub(@, env_pair_len(key, a[key]))]
                      ELSE bd
         IN IF bd.clear_env
            THEN [sized EXCEPT !.env = map_remove(@, key)]
            ELSE [sized EXCEPT !.env = map_insert(@, key, <<>>)]

\* env_remove charging an empty value for a key it finds nowhere
env_remove_unwrap_or_default(bd, a, key) ==
    IF key \in DOMAIN bd.env /\ bd.env[key] = <<>> THEN bd
    ELSE LET sized ==
                 IF key \in DOMAIN bd.env
                 THEN [bd EXCEPT !.env_size =
                          saturating_sub(@, env_pair_len(key, bd.env[key][1]))]
                 ELSE IF ~bd.clear_env
                      THEN [bd EXCEPT !.env_size =
                               saturating_sub(@, env_pair_len(key,
                                   IF key \in DOMAIN a THEN a[key] ELSE <<>>))]
                      ELSE bd
         IN IF bd.clear_env
            THEN [sized EXCEPT !.env = map_remove(@, key)]
            ELSE [sized EXCEPT !.env = map_insert(@, key, <<>>)]

env_remove(bd, a, key) ==
    IF key \in DOMAIN bd.env /\ bd.env[key] = <<>> THEN bd
    ELSE LET sized ==
                 IF key \in DOMAIN bd.env
                 THEN [bd EXCEPT !.env_size =
                          saturating_sub(@, env_pair_len(key, bd.env[key][1]))]
                 ELSE IF ~bd.clear_env /\ key \in DOMAIN a
                      THEN [bd EXCEPT !.env_size =
                               saturating_sub(@, env_pair_len(key, a[key]))]
                      ELSE bd
         IN IF bd.clear_env
            THEN [sized EXCEPT !.env = map_remove(@, key)]
            ELSE [sized EXCEPT !.env = map_insert(@, key, <<>>)]

env_clear(bd) ==
    [bd EXCEPT !.clear_env = TRUE, !.env = EmptyMap, !.env_size = 0]

inherit_env(bd, a) ==
    LET sized == [bd EXCEPT !.env_size = vars_os_size(a)]
        c == check_env_size(sized, 0)
    IN IF ~c.ok THEN Ret(bd, c.err)
       ELSE Ret([sized EXCEPT !.clear_env = FALSE, !.env = EmptyMap], "Ok")

capture_env(bd, a) ==
    LET sized == [bd EXCEPT !.env_size = vars_os_size(a)]
        c == check_env_size(sized, 0)
    IN IF ~c.ok THEN Ret(bd, c.err)
       ELSE Ret([sized EXCEPT !.clear_env = TRUE,
                              !.env = [k \in DOMAIN a |-> <<a[k]>>]], "Ok")

\* the struct literal of with_limits and capture_with_limits
empty_builder(limits) ==
    [limits |-> limits, argv |-> <<>>, env |-> EmptyMap, arg_size |-> 0,
     env_size |-> 0, clear_env |-> FALSE]

with_limits(command, limits, a) ==
    LET e == inherit_env(empty_builder(limits), a) IN
    IF e.res # "Ok" THEN e ELSE arg(e.b, command)

capture_with_limits(command, limits, a) ==
    LET e == capture_env(empty_builder(limits), a) IN
    IF e.res # "Ok" THEN e ELSE arg(e.b, command)

\* into_command: the argv and the environment the child receives
into_command(bd, a) ==
    [argv |-> bd.argv,
     env |-> LET base == IF bd.clear_env THEN {} ELSE DOMAIN a
                 keys == (base \ {k \in DOMAIN bd.env : bd.env[k] = <<>>})
                         \cup {k \in DOMAIN bd.env : bd.env[k] # <<>>}
             IN [k \in keys |-> IF k \in DOMAIN bd.env
                                THEN bd.env[k][1] ELSE a[k]]]

----------------------------------------------------------------------------
(* The values the model draws its inputs from *)

\* arguments: costs 10 and 11
ArgValues == {<<1>>, <<2, 2>>}

Commands == {<<1>>}

RECURSIVE SeqsUpTo(_, _)
SeqsUpTo(S, n) ==
    IF n = 0 THEN {<<>>}
    ELSE LET shorter == SeqsUpTo(S, n - 1) IN
         shorter \cup {Append(s, x) : s \in {t \in shorter : Len(t) = n - 1}, x \in S}

ArgLists == SeqsUpTo(ArgValues, MaxArgv - 1)

Keys == {<<1>>, <<2>>}

\* values: costs 1 and 3
Vals == {<<>>, <<1, 1>>}

\* the ambient environment: empty, or the first key with a value of cost 2
Ambients == {EmptyMap, [k \in {<<1>>} |-> <<2>>]}

\* a CommandLimits: sizes, per-item ceilings and counts, 0 for None
Limits(asize, aitem, acount, esize, eitem, ecount) ==
    [arg_size |-> asize, individual_arg_size |-> aitem, arg_count |-> acount,
     env_size |-> esize, individual_env_size |-> eitem, env_count |-> ecount]

\* small budgets: a few arguments and a pair or two fill them
LimitProfiles ==
    {Limits(s, a[1], a[2], e[1], e[2], e[3]) :
        s \in {32, 43},
        a \in {<<0, 0>>, <<10, 2>>},
        e \in {<<0, 0, 0>>, <<24, 0, 0>>, <<24, 12, 1>>}}

Call(name, list, key, val) ==
    [name |-> name, args |-> list, key |-> key, val |-> val]

\* the x variables while the accountant is explored on its own
XIdle ==
    /\ basecmd = empty_builder(Limits(1, 0, 0, 0, 0, 0))
    /\ cmd = basecmd
    /\ oflag = FALSE
    /\ stream = <<>>
    /\ streamEnd = "eof"
    /\ pos = 0
    /\ item = <<>>
    /\ pending = FALSE
    /\ run_now = FALSE
    /\ rc = 0
    /\ pc = "idle"
    /\ ret = Running
    /\ executed = <<>>
    /\ statuses = <<>>

\* the locals of read_like_xargs as lines 23-28 initialise them
Locals ==
    [item |-> <<>>, complete |-> FALSE, escape |-> FALSE, single |-> FALSE,
     double |-> FALSE, consumed |-> 0, err |-> FALSE]

\* the tokenizer variables while it is not explored
TIdle ==
    /\ input = <<>>
    /\ reader = [pos |-> 0, filled |-> 0]
    /\ rl = Locals
    /\ yielded = <<>>
    /\ tpc = "idle"

\* the default-limits variables while they are not explored
DIdle ==
    /\ target_os = "linux"
    /\ sc_arg_max = 0
    /\ dflt = <<>>

----------------------------------------------------------------------------
(* The accountant: a constructed builder under any sequence of calls *)

\* the fields of the builder that the environment calls read and write
EnvSide(bd) ==
    [env |-> bd.env, env_size |-> bd.env_size, clear_env |-> bd.clear_env]

Init ==
    /\ amb \in Ambients
    /\ \E l \in LimitProfiles, c \in Commands, capture \in BOOLEAN :
          LET r == IF capture THEN capture_with_limits(c, l, amb)
                   ELSE with_limits(c, l, amb)
          IN /\ r.res = "Ok"
             /\ b = r.b
             /\ op = Call(IF capture THEN "capture_with_limits" ELSE "with_limits",
                          <<c>>, <<>>, <<>>)
    /\ res = "Ok"
    /\ envCalls = 0
    /\ before = EnvSide(b)
    /\ XIdle
    /\ TIdle
    /\ DIdle

Arg(a) ==
    /\ Len(b.argv) < MaxArgv
    /\ b' = arg(b, a).b
    /\ res' = arg(b, a).res
    /\ op' = Call("arg", <<a>>, <<>>, <<>>)
    /\ before' = EnvSide(b)
    /\ UNCHANGED <<amb, envCalls, xvars, tvars, dvars>>

Args(list) ==
    /\ Len(b.argv) + Len(list) <= MaxArgv
    /\ b' = args(b, list).b
    /\ res' = args(b, list).res
    /\ op' = Call("args", list, <<>>, <<>>)
    /\ before' = EnvSide(b)
    /\ UNCHANGED <<amb, envCalls, xvars, tvars, dvars>>

Env(key, value) ==
    /\ envCalls < MaxEnvCalls
    /\ envCalls' = envCalls + 1
    /\ b' = env(b, amb, key, value).b
    /\ res' = env(b, amb, key, value).res
    /\ op' = Call("env", <<>>, key, value)
    /\ before' = EnvSide(b)
    /\ UNCHANGED <<amb, xvars, tvars, dvars>>

EnvRemove(key) ==
    /\ envCalls < MaxEnvCalls
    /\ envCalls' = envCalls + 1
    /\ b' = env_remove(b, amb, key)
    /\ res' = "Ok"
    /\ op' = Call("env_remove", <<>>, key, <<>>)
    /\ before' = EnvSide(b)
    /\ UNCHANGED <<amb, xvars, tvars, dvars>>

EnvClear ==
    /\ envCalls < MaxEnvCalls
    /\ envCalls' = envCalls + 1
    /\ b' = env_clear(b)
    /\ res' = "Ok"
    /\ op' = Call("env_clear", <<>>, <<>>, <<>>)
    /\ before' = EnvSide(b)
    /\ UNCHANGED <<amb, xvars, tvars, dvars>>

InheritEnv ==
    /\ envCalls < MaxEnvCalls
    /\ envCalls' = envCalls + 1
    /\ b' = inherit_env(b, amb).b
    /\ res' = inherit_env(b, amb).res
    /\ op' = Call("inherit_env", <<>>, <<>>, <<>>)
    /\ before' = EnvSide(b)
    /\ UNCHANGED <<amb, xvars, tvars, dvars>>

CaptureEnv ==
    /\ envCalls < MaxEnvCalls
    /\ envCalls' = envCalls + 1
    /\ b' = capture_env(b, amb).b
    /\ res' = capture_env(b, amb).res
    /\ op' = Call("capture_env", <<>>, <<>>, <<>>)
    /\ before' = EnvSide(b)
    /\ UNCHANGED <<amb, xvars, tvars, dvars>>

Next ==
    \/ \E a \in ArgValues : Arg(a)
    \/ \E list \in ArgLists : Args(list)
    \/ \E key \in Keys, value \in Vals : Env(key, value)
    \/ \E key \in Keys : EnvRemove(key)
    \/ EnvClear
    \/ InheritEnv
    \/ CaptureEnv

Spec == Init /\ [][Next]_vars

----------------------------------------------------------------------------
(* xargs: src/examples/xargs.rs *)

\* OsStr::from_bytes(bytes).to_os_string(): the same bytes
bytes_to_os(bytes) == bytes

\* ExitStatus of a child killed by a signal: code() is None, signal() is Some
Signalled == -1

\* what the executor may return: natural exits 0, 1, 2 and 255, or a signal
Statuses == {0, 1, 2, 255, Signalled}

\* tokens: costs 10 and 12; split(b'\0') also yields the empty token
XTokens == {<<1>>, <<2, 2, 2>>}

XStreams(o) ==
    SeqsUpTo(IF o THEN XTokens \cup {<<>>} ELSE XTokens, MaxStream)

UniformStreams == {[i \in 1..n |-> <<1>>] : n \in 0..MaxUniform}

\* the utility and its fixed arguments
XCommands == {<< <<1>> >>, << <<1>>, <<2>> >>}

\* Default::default() of unix.rs:63-80 scaled down: arg_size and, on Linux,
\* individual_arg_size; every other limit None
XLimitProfiles == {Limits(s, i, 0, 0, 0, 0) : s \in {40, 50}, i \in {0, 11}}

\* CommandBuilder::new(&command[0])?, then basecmd.args(&command[1..])?
baseline(command, limits, a) ==
    LET n == with_limits(command[1], limits, a) IN
    IF n.res # "Ok" \/ Len(command) <= 1 THEN n ELSE args(n.b, Tail(command))

\* the accountant variables while xargs is explored
AIdle ==
    /\ b = basecmd
    /\ op = Call("new", <<>>, <<>>, <<>>)
    /\ res = "Ok"
    /\ envCalls = 0
    /\ before = EnvSide(b)

XInit ==
    /\ \E l \in XLimitProfiles, command \in XCommands :
          \/ /\ amb \in Ambients
             /\ oflag \in BOOLEAN
             /\ stream \in XStreams(oflag)
             /\ streamEnd \in {"eof", "error"}
             /\ baseline(command, l, amb).res = "Ok"
             /\ basecmd = baseline(command, l, amb).b
          \/ /\ amb = EmptyMap
             /\ oflag \in BOOLEAN
             /\ stream \in UniformStreams
             /\ streamEnd = "eof"
             /\ Len(command) = 1
             /\ baseline(command, l, amb).res = "Ok"
             /\ basecmd = baseline(command, l, amb).b
    /\ cmd = basecmd
    /\ pos = 0
    /\ item = <<>>
    /\ pending = FALSE
    /\ run_now = FALSE
    /\ rc = 0
    /\ pc = "loop"
    /\ ret = Running
    /\ executed = <<>>
    /\ statuses = <<>>
    /\ AIdle
    /\ TIdle
    /\ DIdle

\* lines 203-204: the token in hand, after iter.next() if there was none
XAtEnd == item = <<>> /\ pos = Len(stream)
XItem == IF item # <<>> THEN item
         ELSE IF pos < Len(stream) THEN <<stream[pos + 1]>> ELSE <<>>
XPos == IF item = <<>> /\ pos < Len(stream) THEN pos + 1 ELSE pos

\* match cmd.arg(..) with TooLarge handled like the other errors
match_arg_requeue_too_large(c, it, pend, rn) ==
    LET r == arg(c, bytes_to_os(it)) IN
    IF r.res # "Ok"
    THEN [abort |-> FALSE, cmd |-> r.b, item |-> <<it>>, pending |-> pend,
          run_now |-> TRUE]
    ELSE [abort |-> FALSE, cmd |-> r.b, item |-> <<>>, pending |-> TRUE,
          run_now |-> rn]

\* match cmd.arg(..) forgetting the token it could not add
match_arg_drop_rejected(c, it, pend, rn) ==
    LET r == arg(c, bytes_to_os(it)) IN
    IF r.res = "TooLarge"
    THEN [abort |-> TRUE, cmd |-> r.b, item |-> <<>>, pending |-> pend,
          run_now |-> rn]
    ELSE IF r.res # "Ok"
    THEN [abort |-> FALSE, cmd |-> r.b, item |-> <<>>, pending |-> pend,
          run_now |-> TRUE]
    ELSE [abort |-> FALSE, cmd |-> r.b, item |-> <<>>, pending |-> TRUE,
          run_now |-> rn]

\* lines 214-223: match cmd.arg(bytes_to_os(&it))
match_arg(c, it, pend, rn) ==
    LET r == arg(c, bytes_to_os(it)) IN
    IF r.res = "TooLarge"
    THEN [abort |-> TRUE, cmd |-> r.b, item |-> <<>>, pending |-> pend,
          run_now |-> rn]
    ELSE IF r.res # "Ok"
    THEN [abort |-> FALSE, cmd |-> r.b, item |-> <<it>>, pending |-> pend,
          run_now |-> TRUE]
    ELSE [abort |-> FALSE, cmd |-> r.b, item |-> <<>>, pending |-> TRUE,
          run_now |-> rn]

\* the exit status handling with rc taken from every exit, a zero one too
exit_status_reset_on_success(old_rc, status) ==
    IF status = Signalled THEN [pc |-> "Signal", rc |-> old_rc, ret |-> Ok(0)]
    ELSE IF status = 255 THEN [pc |-> "HardStop", rc |-> 255, ret |-> Ok(255)]
    ELSE [pc |-> "loop", rc |-> status, ret |-> Running]

\* the exit status handling keeping the highest code
exit_status_keep_highest(old_rc, status) ==
    IF status = 0 THEN [pc |-> "loop", rc |-> old_rc, ret |-> Running]
    ELSE IF status = Signalled
    THEN [pc |-> "Signal", rc |-> old_rc, ret |-> Ok(0)]
    ELSE IF status = 255 THEN [pc |-> "HardStop", rc |-> 255, ret |-> Ok(255)]
    ELSE [pc |-> "loop", rc |-> IF status > old_rc THEN status ELSE old_rc,
          ret |-> Running]

\* the exit status handling with 255 recorded like any other non-zero code
exit_status_no_hard_stop(old_rc, status) ==
    IF status = 0 THEN [pc |-> "loop", rc |-> old_rc, ret |-> Running]
    ELSE IF status = Signalled
    THEN [pc |-> "Signal", rc |-> old_rc, ret |-> Ok(0)]
    ELSE [pc |-> "loop", rc |-> status, ret |-> Running]

\* the exit status handling returning the recorded code after a signal
exit_status_signal_returns_rc(old_rc, status) ==
    IF status = 0 THEN [pc |-> "loop", rc |-> old_rc, ret |-> Running]
    ELSE IF status = Signalled
    THEN [pc |-> "Signal", rc |-> old_rc, ret |-> Ok(old_rc)]
    ELSE IF status = 255 THEN [pc |-> "HardStop", rc |-> 255, ret |-> Ok(255)]
    ELSE [pc |-> "loop", rc |-> status, ret |-> Running]

\* lines 238-259: what an exit status does to rc and to the loop
exit_status(old_rc, status) ==
    IF status = 0 THEN [pc |-> "loop", rc |-> old_rc, ret |-> Running]
    ELSE IF status = Signalled
    THEN [pc |-> "Signal", rc |-> old_rc, ret |-> Ok(0)]
    ELSE IF status = 255 THEN [pc |-> "HardStop", rc |-> 255, ret |-> Ok(255)]
    ELSE [pc |-> "loop", rc |-> status, ret |-> Running]

\* the run block going on with the builder it has just executed
RunBlock_no_reset(m, status) ==
    IF m.pending /\ m.run_now
    THEN LET e == exit_status(rc, status) IN
         /\ executed' = Append(executed, into_command(m.cmd, amb))
         /\ statuses' = Append(statuses, status)
         /\ rc' = e.rc
         /\ pc' = e.pc
         /\ ret' = e.ret
         /\ item' = m.item
         /\ cmd' = m.cmd
         /\ IF e.pc = "loop"
            THEN pending' = FALSE /\ run_now' = FALSE
            ELSE pending' = m.pending /\ run_now' = m.run_now
    ELSE /\ cmd' = m.cmd
         /\ item' = m.item
         /\ pending' = m.pending
         /\ run_now' = m.run_now
         /\ UNCHANGED <<rc, pc, ret, executed, statuses>>

\* the run block executing whenever a run is due, pending or not
RunBlock_ignore_pending(m, status) ==
    IF m.run_now
    THEN LET e == exit_status(rc, status) IN
         /\ executed' = Append(executed, into_command(m.cmd, amb))
         /\ statuses' = Append(statuses, status)
         /\ rc' = e.rc
         /\ pc' = e.pc
         /\ ret' = e.ret
         /\ item' = m.item
         /\ IF e.pc = "loop"
            THEN pending' = FALSE /\ run_now' = FALSE /\ cmd' = basecmd
            ELSE pending' = m.pending /\ run_now' = m.run_now /\ cmd' = m.cmd
    ELSE /\ cmd' = m.cmd
         /\ item' = m.item
         /\ pending' = m.pending
         /\ run_now' = m.run_now
         /\ UNCHANGED <<rc, pc, ret, executed, statuses>>

\* lines 228-263: after the token was handled, run the batch if it is pending
\* and due, the executor returning status
RunBlock(m, status) ==
    IF m.pending /\ m.run_now
    THEN LET e == exit_status(rc, status) IN
         /\ executed' = Append(executed, into_command(m.cmd, amb))
         /\ statuses' = Append(statuses, status)
         /\ rc' = e.rc
         /\ pc' = e.pc
         /\ ret' = e.ret
         /\ item' = m.item
         /\ IF e.pc = "loop"
            THEN pending' = FALSE /\ run_now' = FALSE /\ cmd' = basecmd
            ELSE pending' = m.pending /\ run_now' = m.run_now /\ cmd' = m.cmd
    ELSE /\ cmd' = m.cmd
         /\ item' = m.item
         /\ pending' = m.pending
         /\ run_now' = m.run_now
         /\ UNCHANGED <<rc, pc, ret, executed, statuses>>

\* line 204: iter.next() yields Err, and ? returns it
XIoError ==
    /\ pc = "loop"
    /\ XAtEnd
    /\ streamEnd = "error"
    /\ pc' = "IoError"
    /\ ret' = Err("io")
    /\ UNCHANGED <<avars, tvars, dvars, basecmd, cmd, oflag, stream, streamEnd, pos, item,
                   pending, run_now, rc, executed, statuses>>

\* lines 205-207: no token and nothing pending
XBreak ==
    /\ pc = "loop"
    /\ XAtEnd
    /\ streamEnd = "eof"
    /\ ~pending
    /\ pc' = "Done"
    /\ ret' = Ok(rc)
    /\ UNCHANGED <<avars, tvars, dvars, basecmd, cmd, oflag, stream, streamEnd, pos, item,
                   pending, run_now, rc, executed, statuses>>

\* lines 211-213: an empty token is dropped
XSkipEmpty ==
    /\ pc = "loop"
    /\ XItem = << <<>> >>
    /\ pos' = XPos
    /\ item' = <<>>
    /\ UNCHANGED <<avars, tvars, dvars, basecmd, cmd, oflag, stream, streamEnd, pending,
                   run_now, rc, pc, ret, executed, statuses>>

\* line 215: TooLarge leaves run() with the error
XTooLarge ==
    /\ pc = "loop"
    /\ XItem # <<>>
    /\ XItem[1] # <<>>
    /\ match_arg(cmd, XItem[1], pending, run_now).abort
    /\ pos' = XPos
    /\ item' = <<>>
    /\ pc' = "Aborted"
    /\ ret' = Err("TooLarge")
    /\ UNCHANGED <<avars, tvars, dvars, basecmd, cmd, oflag, stream, streamEnd, pending,
                   run_now, rc, executed, statuses>>

\* lines 216-223 and 228-263: the token is accepted or held back, and the
\* batch runs if it is due
XToken(status) ==
    /\ pc = "loop"
    /\ XItem # <<>>
    /\ XItem[1] # <<>>
    /\ ~match_arg(cmd, XItem[1], pending, run_now).abort
    /\ pos' = XPos
    /\ RunBlock(match_arg(cmd, XItem[1], pending, run_now), status)
    /\ UNCHANGED <<avars, tvars, dvars, basecmd, oflag, stream, streamEnd>>

\* lines 224-226 and 228-263: the stream is over and a batch is pending
XFlush(status) ==
    /\ pc = "loop"
    /\ XAtEnd
    /\ streamEnd = "eof"
    /\ pending
    /\ pos' = XPos
    /\ RunBlock([cmd |-> cmd, item |-> <<>>, pending |-> pending,
                 run_now |-> TRUE], status)
    /\ UNCHANGED <<avars, tvars, dvars, basecmd, oflag, stream, streamEnd>>

XNext ==
    \/ XIoError
    \/ XBreak
    \/ XSkipEmpty
    \/ XTooLarge
    \/ \E status \in Statuses : XToken(status)
    \/ \E status \in Statuses : XFlush(status)

XSpec == XInit /\ [][XNext]_vars

----------------------------------------------------------------------------
(* The tokenizer without -0: read_like_xargs called until it ends *)

MaxInput == 3

SQuote == 39
DQuote == 34
Backslash == 92
Newline == 10

\* u8::is_ascii_whitespace: tab, line feed, form feed, carriage return, space
Whitespace == {9, 10, 12, 13, 32}

\* the bytes inputs are made of: the letter a and the bytes with a meaning
Alphabet == {97, 32, SQuote, DQuote, Backslash, Newline}

\* a 'b c' d\ e "f g"
QuotedInput ==
    <<97, 32, SQuote, 98, 32, 99, SQuote, 32, 100, Backslash, 32, 101, 32,
      DQuote, 102, 32, 103, DQuote>>

TInputs == SeqsUpTo(Alphabet, MaxInput) \cup {QuotedInput}

\* lines 55-107: the body of the for loop on one byte
for_byte(l, byte) ==
    LET c == [l EXCEPT !.consumed = @ + 1]
        push == [c EXCEPT !.item = Append(@, byte)]
    IN IF l.escape THEN [push EXCEPT !.escape = FALSE]
       ELSE IF l.single
       THEN IF byte = SQuote THEN [c EXCEPT !.single = FALSE]
            ELSE IF byte = Newline THEN [c EXCEPT !.err = TRUE]
            ELSE push
       ELSE IF l.double
       THEN IF byte = DQuote THEN [c EXCEPT !.double = FALSE]
            ELSE IF byte = Newline THEN [c EXCEPT !.err = TRUE]
            ELSE push
       ELSE IF byte = Backslash THEN [c EXCEPT !.escape = TRUE]
       ELSE IF byte = SQuote THEN [c EXCEPT !.single = TRUE]
       ELSE IF byte = DQuote THEN [c EXCEPT !.double = TRUE]
       ELSE IF byte \in Whitespace THEN [c EXCEPT !.complete = l.item # <<>>]
       ELSE push

\* lines 54-111: the for loop over the buffer from its i-th byte, left by the
\* break on complete or by the return of an error
RECURSIVE for_buffer(_, _, _)
for_buffer(buffer, i, l) ==
    IF i > Len(buffer) \/ l.complete \/ l.err THEN l
    ELSE for_buffer(buffer, i + 1, for_byte(l, buffer[i]))

\* the locals a step of the while loop starts from
TLocals == IF tpc = "call" THEN Locals ELSE rl

\* BufReader::fill_buf reads only when its buffer has been consumed
TMustRead == reader.pos = reader.filled

\* BufReader::consume: pos = min(pos + amt, filled)
consume(r, amt) ==
    [r EXCEPT !.pos = IF r.pos + amt < r.filled THEN r.pos + amt ELSE r.filled]

TInit ==
    /\ input \in TInputs
    /\ reader = [pos |-> 0, filled |-> 0]
    /\ rl = Locals
    /\ yielded = <<>>
    /\ tpc = "call"
    /\ DIdle
    /\ amb = EmptyMap
    /\ XIdle
    /\ b = basecmd
    /\ op = Call("new", <<>>, <<>>, <<>>)
    /\ res = "Ok"
    /\ envCalls = 0
    /\ before = EnvSide(b)

\* lines 32-35: fill_buf has to read and the read fails
TIoError ==
    /\ tpc \in {"call", "while"}
    /\ TMustRead
    /\ tpc' = "io error"
    /\ rl' = Locals
    /\ UNCHANGED <<avars, xvars, dvars, input, reader, yielded>>

\* lines 37-52: fill_buf returns an empty buffer, the stream is over
TEof ==
    /\ tpc \in {"call", "while"}
    /\ TMustRead
    /\ reader.filled = Len(input)
    /\ LET l == TLocals IN
       IF l.single \/ l.double
       THEN tpc' = "unterminated quote" /\ yielded' = yielded
       ELSE IF l.escape
       THEN tpc' = "backslash at EOF" /\ yielded' = yielded
       ELSE IF l.item = <<>>
       THEN tpc' = "None" /\ yielded' = yielded
       ELSE tpc' = "call" /\ yielded' = Append(yielded, l.item)
    /\ rl' = Locals
    /\ UNCHANGED <<avars, xvars, dvars, input, reader>>

\* lines 31-114: one turn of the while loop on a non-empty buffer, which is
\* what is left of the last read or, when that is used up, the n bytes of a
\* new read
TFill(n) ==
    /\ tpc \in {"call", "while"}
    /\ IF TMustRead THEN n >= 1 /\ reader.filled + n <= Len(input) ELSE n = 0
    /\ LET r == [reader EXCEPT !.filled = @ + n]
           buffer == SubSeq(input, r.pos + 1, r.filled)
           l == for_buffer(buffer, 1, TLocals)
       IN IF l.err
          THEN /\ tpc' = "unterminated quote"
               /\ reader' = r
               /\ rl' = Locals
               /\ yielded' = yielded
          ELSE /\ reader' = consume(r, l.consumed)
               /\ IF l.complete
                  THEN /\ tpc' = "call"
                       /\ rl' = Locals
                       /\ yielded' = Append(yielded, l.item)
                  ELSE /\ tpc' = "while"
                       /\ rl' = l
                       /\ yielded' = yielded
    /\ UNCHANGED <<avars, xvars, dvars, input>>

TNext ==
    \/ TIoError
    \/ TEof
    \/ \E n \in 0..Len(input) : TFill(n)

TSpec == TInit /\ [][TNext]_vars

----------------------------------------------------------------------------
(* The default limits on unix: src/src/unix.rs *)

MaxKiB == 2049

ARG_POSIX_MIN == 4096
ARG_RESERVED == 4096
ARG_MIN == 2048

\* cfg(target_os = "linux") and cfg(not(target_os = "linux"))
ARG_MAX(os) == IF os = "linux" THEN 128 * 1024 ELSE 2048 * 1024
ARG_SINGLE_MAX(os) == IF os = "linux" THEN 128 * 1024 ELSE 0

Min(x, y) == IF x < y THEN x ELSE y
Max(x, y) == IF x < y THEN y ELSE x

\* what sysconf may return: -1 on failure, 0, every multiple of 1024 up to
\* MaxKiB KiB with its two neighbours, and LONG_MAX of a 32-bit target
SysconfValues ==
    {-1, 0, 2147483647}
       \cup {k * 1024 + d : k \in 1..MaxKiB, d \in {-1, 0, 1}}

\* lines 30-38: Some(arg_max) if sysconf returned a positive value, as a
\* sequence of length 0 or 1
_sc_arg_max(r) == IF r > 0 THEN <<r>> ELSE <<>>

\* Option<usize>::unwrap_or_default
unwrap_or_default(o) == IF o = <<>> THEN 0 ELSE o[1]

\* the computation of arg_max without the final floor
default_arg_max_no_floor(os, r) ==
    saturating_sub(Max(Min(ARG_MAX(os), unwrap_or_default(_sc_arg_max(r))),
                       ARG_POSIX_MIN),
                   ARG_RESERVED)

\* the computation of arg_max reserving before it clamps to the POSIX minimum
default_arg_max_reserve_first(os, r) ==
    Max(Max(saturating_sub(Min(ARG_MAX(os), unwrap_or_default(_sc_arg_max(r))),
                           ARG_RESERVED),
            ARG_POSIX_MIN),
        ARG_MIN)

\* lines 65-69: arg_max
default_arg_max(os, r) ==
    Max(saturating_sub(Max(Min(ARG_MAX(os), unwrap_or_default(_sc_arg_max(r))),
                           ARG_POSIX_MIN),
                       ARG_RESERVED),
        ARG_MIN)

\* lines 63-80: Default::default(); NonZeroUsize::new(arg_max).unwrap()
\* panics when arg_max is 0
default(os, r) ==
    LET arg_max == default_arg_max(os, r) IN
    IF arg_max = 0 THEN [ok |-> FALSE, val |-> 0, err |-> "panic"]
    ELSE Ok(Limits(arg_max, ARG_SINGLE_MAX(os), 0, 0, ARG_SINGLE_MAX(os), 0))

DInit ==
    /\ target_os \in {"linux", "other"}
    /\ sc_arg_max \in SysconfValues
    /\ dflt = <<>>
    /\ amb = EmptyMap
    /\ XIdle
    /\ TIdle
    /\ b = basecmd
    /\ op = Call("new", <<>>, <<>>, <<>>)
    /\ res = "Ok"
    /\ envCalls = 0
    /\ before = EnvSide(b)

\* CommandLimits::default() is called
Default ==
    /\ dflt = <<>>
    /\ dflt' = <<default(target_os, sc_arg_max)>>
    /\ UNCHANGED <<avars, xvars, tvars, target_os, sc_arg_max>>

DNext == Default

DSpec == DInit /\ [][DNext]_vars

----------------------------------------------------------------------------
(* Claims about the accountant *)

\* sum of arg_len over a sequence of arguments
ArgvCost(argv) == SumSeq([i \in 1..Len(argv) |-> arg_len(argv[i])])

\* repeated add_argument, each call seeing what the earlier ones added
RECURSIVE seq_args(_, _)
seq_args(bd, list) ==
    IF list = <<>> THEN Ret(bd, "Ok")
    ELSE LET r == arg(bd, Head(list)) IN
         IF r.res # "Ok" THEN r ELSE seq_args(r.b, Tail(list))

\* C1: in every reachable state the running totals are within budget: with no
\* env_size, arg_size_used + env_size_used <= arg_size; with env_size, each
\* total is within its own budget; and argv holds at most arg_count entries.
C1_BudgetInvariant ==
    /\ b.limits.env_size = 0 => b.arg_size + b.env_size <= b.limits.arg_size
    /\ b.limits.env_size # 0 =>
           /\ b.arg_size <= b.limits.arg_size
           /\ b.env_size <= b.limits.env_size
    /\ b.limits.arg_count # 0 => Len(b.argv) <= b.limits.arg_count

\* C2: a call that returns an error leaves the builder (argument list,
\* environment mapping, cleared flag, both running totals) as it was.
C2_UnchangedOnError == [][res' # "Ok" => b' = b]_vars

\* C2 witness: args has refused a list whose first element alone was
\* acceptable.
C2_Witness ==
    /\ op.name = "args"
    /\ res # "Ok"
    /\ Len(op.args) >= 2
    /\ check_arg(b, op.args[1]).ok

\* C3: add_arguments(list) succeeds exactly when add_argument on each element
\* in order would, and then leaves the state those calls would leave.
C3_ArgsIsSequential ==
    [][op'.name = "args" =>
          LET s == seq_args(b, op'.args) IN
          /\ (res' = "Ok") = (s.res = "Ok")
          /\ res' = "Ok" => b' = s.b]_vars

\* C4 as stated: an add_argument call succeeds whenever the cumulative cost of
\* the arguments, the new one included, is within arg_size.
C4_Original ==
    [][(/\ op'.name = "arg"
        /\ ArgvCost(b.argv) + arg_len(op'.args[1]) <= b.limits.arg_size)
       => res' = "Ok"]_vars

\* C4 amended: an add_argument call succeeds whenever the argument is within
\* the per-argument ceiling, the count limit (if set) is not yet reached, and
\* the cumulative cost of the arguments, the new one included, plus the cost
\* of the environment when no separate env_size is configured, is within
\* arg_size.
C4_FitsThenAccepted ==
    [][(/\ op'.name = "arg"
        /\ arg_len(op'.args[1]) <= arg_ceiling(b.limits)
        /\ b.limits.arg_count # 0 => Len(b.argv) < b.limits.arg_count
        /\ ArgvCost(b.argv) + arg_len(op'.args[1])
              + (IF b.limits.env_size = 0 THEN b.env_size ELSE 0)
           <= b.limits.arg_size)
       => res' = "Ok"]_vars

\* C4 witness: an argument was accepted that fills a budget shared with a
\* non-empty environment exactly.
C4_Witness ==
    /\ op.name = "arg"
    /\ res = "Ok"
    /\ b.limits.env_size = 0
    /\ b.env_size > 0
    /\ ArgvCost(b.argv) + b.env_size = b.limits.arg_size

\* C5: add_argument fails with TooLarge exactly when the cost of the argument
\* exceeds the per-argument ceiling, whatever the count and the space left.
C5_TooLargeIffOverCeiling ==
    [][op'.name = "arg" =>
          ((res' = "TooLarge") = (arg_len(op'.args[1]) > arg_ceiling(b.limits)))]_vars

\* C5 witness: TooLarge was returned with the count limit reached and no room
\* left for the argument.
C5_Witness ==
    /\ op.name = "arg"
    /\ res = "TooLarge"
    /\ b.limits.arg_count # 0
    /\ Len(b.argv) >= b.limits.arg_count
    /\ b.limits.env_size = 0
    /\ b.limits.arg_size < b.arg_size + b.env_size + arg_len(op.args[1])

----------------------------------------------------------------------------
(* Claims about the batching loop *)

\* number of entries of the baseline argv: the program and its fixed arguments
BaseLen == Len(basecmd.argv)

\* the tokens of the i-th executed batch: its argv after the baseline's
BatchTokens(i) == SubSeq(executed[i].argv, BaseLen + 1, Len(executed[i].argv))

\* the tokens of the first n executed batches, in execution order
RECURSIVE ConcatBatches(_)
ConcatBatches(n) ==
    IF n = 0 THEN <<>> ELSE ConcatBatches(n - 1) \o BatchTokens(n)

BatchSizes == [i \in 1..Len(executed) |-> Len(BatchTokens(i))]

IsNonEmpty(t) == t # <<>>

\* bytes of the arg_size budget the baseline leaves to the tokens
Remaining(bd) ==
    bd.limits.arg_size - bd.arg_size
       - (IF bd.limits.env_size = 0 THEN bd.env_size ELSE 0)

\* a stream of 10 tokens of cost 10 each
TenOfTen ==
    /\ Len(stream) = 10
    /\ \A i \in 1..Len(stream) : arg_len(bytes_to_os(stream[i])) = 10

\* the exit code of the last batch that exited non-zero, 0 if none did
LastNonZero(s) ==
    LET nz == {i \in 1..Len(s) : s[i] # 0} IN
    IF nz = {} THEN 0 ELSE s[CHOOSE i \in nz : \A j \in nz : j <= i]

\* the highest exit code seen, 0 if there is none
Highest(s) ==
    IF s = <<>> THEN 0
    ELSE LET i == CHOOSE k \in 1..Len(s) : \A j \in 1..Len(s) : s[j] <= s[k]
         IN s[i]

\* C6 as stated: with an arg_size of 40 and tokens of cost 10, a stream of 10
\* tokens is executed as exactly 3 batches of 4, 4 and 2 tokens.
C6_Original ==
    (pc = "Done" /\ TenOfTen /\ basecmd.limits.arg_size = 40)
       => BatchSizes = <<4, 4, 2>>

\* C6 amended: when the baseline (program, fixed arguments, inherited
\* environment) leaves 40 bytes of the arg_size budget and every token costs
\* 10, a batch accepts exactly 4 tokens before InsufficientSpace, and a stream
\* of 10 tokens is executed as exactly 3 batches of 4, 4 and 2 tokens.
C6_FourPerBatch ==
    (TenOfTen /\ Remaining(basecmd) = 40) =>
       /\ Len(cmd.argv) - BaseLen <= 4
       /\ Len(cmd.argv) - BaseLen < 4 => arg(cmd, <<1>>).res = "Ok"
       /\ Len(cmd.argv) - BaseLen = 4 => arg(cmd, <<1>>).res = "InsufficientSpace"
       /\ pc = "Done" => BatchSizes = <<4, 4, 2>>

\* C6 witness: the run of such a stream is done, its three batches executed.
C6_Witness ==
    /\ TenOfTen
    /\ Remaining(basecmd) = 40
    /\ pc = "Done"
    /\ Len(executed) = 3

C8_TooLargeAborts ==
    [][/\ (/\ pc = "loop"
           /\ XItem # <<>>
           /\ XItem[1] # <<>>
           /\ arg(cmd, bytes_to_os(XItem[1])).res = "TooLarge")
          => /\ pc' = "Aborted"
             /\ ret' = Err("TooLarge")
             /\ executed' = executed
             /\ item' = <<>>
       /\ pc = "Aborted" => FALSE]_vars

\* C8 witness: the run was aborted after one batch had been executed and with
\* accepted tokens pending in the current one.
C8_Witness ==
    /\ pc = "Aborted"
    /\ pending
    /\ Len(cmd.argv) > BaseLen
    /\ Len(executed) = 1

\* C9 as stated: at Done the result is the highest exit code seen.
C9_Original == pc = "Done" => ret = Ok(Highest(statuses))

\* C9 amended: a batch exiting with a non-zero code other than 255 makes that
\* code the recorded result and the run continues with a fresh batch; at Done
\* the result is the most recent non-zero exit code, which replaces an earlier
\* higher one.
C9_LastNonZeroWins ==
    /\ [][(/\ Len(statuses') = Len(statuses) + 1
           /\ statuses'[Len(statuses')] \notin {0, 255, Signalled})
          => /\ pc' = "loop"
             /\ rc' = statuses'[Len(statuses')]
             /\ cmd' = basecmd
             /\ ~pending'
             /\ ~run_now']_vars
    /\ []((pc = "Done" /\ \E i \in 1..Len(statuses) : statuses[i] # 0)
             => ret = Ok(LastNonZero(statuses)))

\* C9 witness: the run is done with result 1 after exits 2 and then 1.
C9_Witness ==
    /\ pc = "Done"
    /\ statuses = <<2, 1>>
    /\ ret = Ok(1)

\* C10: at Done the result is 0 exactly when every executed batch exited 0;
\* otherwise it is the exit code of the last batch that exited non-zero, which
\* a later batch exiting 0 does not reset.
C10_FinalResult ==
    pc = "Done" =>
       /\ ret.ok
       /\ (ret.val = 0) = (\A i \in 1..Len(statuses) : statuses[i] = 0)
       /\ \A i \in 1..Len(statuses) :
             (/\ statuses[i] # 0
              /\ \A j \in (i + 1)..Len(statuses) : statuses[j] = 0)
             => ret.val = statuses[i]

\* C10 witness: the run is done with a non-zero result after a batch exited
\* non-zero and a later one exited 0.
C10_Witness ==
    /\ pc = "Done"
    /\ Len(statuses) >= 2
    /\ statuses[1] # 0
    /\ statuses[Len(statuses)] = 0
    /\ ret.val = statuses[1]

\* the executor has just returned status st
Exited(st) ==
    /\ Len(statuses') = Len(statuses) + 1
    /\ statuses'[Len(statuses')] = st

\* C11: a batch exiting with code 255 ends the run with result 255 at once:
\* nothing is read or executed afterwards, the held-back token and the rest of
\* the stream included.
C11_HardStop ==
    [][/\ Exited(255) => (pc' = "HardStop" /\ ret' = Ok(255))
       /\ pc = "HardStop" => FALSE]_vars

\* C11 witness: the run stopped on 255 with a token held back and tokens
\* still unread.
C11_Witness ==
    /\ pc = "HardStop"
    /\ ret = Ok(255)
    /\ item # <<>>
    /\ pos < Len(stream)

\* C12 as stated: after a batch is killed by a signal the result is the code
\* recorded from the earlier batches, 0 if none exited non-zero.
C12_Original ==
    pc = "Signal" =>
       ret = Ok(LastNonZero(SubSeq(statuses, 1, Len(statuses) - 1)))

\* C12 amended: a batch killed by a signal ends the run without error and
\* without another batch, and the result is 0 whatever code was recorded from
\* the earlier batches.
C12_SignalReturnsZero ==
    [][/\ Exited(Signalled) => (pc' = "Signal" /\ ret' = Ok(0))
       /\ pc = "Signal" => FALSE]_vars

\* C12 witness: the run ended on a signal with result 0 after an earlier
\* batch had exited non-zero.
C12_Witness ==
    /\ pc = "Signal"
    /\ rc # 0
    /\ ret = Ok(0)
    /\ item # <<>>

\* the last call was a successful set_env on a key that was present only
\* through the inherited environment
SetInherited ==
    /\ op.name = "env"
    /\ res = "Ok"
    /\ ~before.clear_env
    /\ op.key \notin DOMAIN before.env
    /\ op.key \in DOMAIN amb

C14_RemoveUnknownIsNoOp ==
    [][(/\ op'.name = "env_remove"
        /\ op'.key \notin DOMAIN amb
        /\ op'.key \notin DOMAIN b.env)
          => /\ b'.env_size = b.env_size
             /\ b'.arg_size = b.arg_size
             /\ b'.argv = b.argv
             /\ b'.clear_env = b.clear_env
             /\ into_command(b', amb) = into_command(b, amb)]_vars

\* C14 witness: remove_env has just recorded the unset of an unknown key in
\* a builder that inherits a non-empty environment.
C14_Witness ==
    /\ op.name = "env_remove"
    /\ op.key \notin DOMAIN amb
    /\ op.key \notin DOMAIN before.env
    /\ ~b.clear_env
    /\ b.env[op.key] = <<>>
    /\ b.env_size = before.env_size
    /\ b.env_size > 0

\* a builder as clear_env leaves it: nothing tracked, nothing inherited
Cleared(e) == e.clear_env /\ e.env = EmptyMap /\ e.env_size = 0

\* C15: clear_env leaves the mapping empty, the cleared flag set and
\* env_size_used 0, and a successful set_env that follows it on a key not in
\* the mapping, in the ambient environment or not, adds exactly the pair
\* cost of the new entry to env_size_used.
C15_FreshAfterClear ==
    /\ op.name = "env_clear" => Cleared(EnvSide(b))
    /\ (op.name = "env" /\ res = "Ok" /\ Cleared(before))
          => b.env_size = before.env_size + env_pair_len(op.key, op.val)

\* the last call was set_env on a key that had a value, its own or an
\* inherited one, before the call
Replacing ==
    /\ op.name = "env"
    /\ \/ op.key \in DOMAIN before.env /\ before.env[op.key] # <<>>
       \/ op.key \notin DOMAIN before.env /\ ~before.clear_env
                                          /\ op.key \in DOMAIN amb

\* the value the last set_env replaced
Replaced ==
    IF op.key \in DOMAIN before.env THEN before.env[op.key][1] ELSE amb[op.key]

\* C20: set_env on a key that has an override or an inherited value fails
\* with TooLarge when the new value is longer and the new pair costs more
\* than the per-entry ceiling, so that an entry it stores is within the
\* ceiling, and it never fails when the new value is not longer.
C20_ReplacementCeiling ==
    Replacing =>
       /\ (/\ Len(op.val) > Len(Replaced)
           /\ env_pair_len(op.key, op.val) > env_ceiling(b.limits))
             => res = "TooLarge"
       /\ res = "Ok" => env_pair_len(op.key, op.val) <= env_ceiling(b.limits)
       /\ Len(op.val) <= Len(Replaced) => res = "Ok"

\* the tokens the current batch holds: its argv after the baseline's
CmdTokens == SubSeq(cmd.argv, BaseLen + 1, Len(cmd.argv))

\* the non-empty tokens the iterator has yielded so far
Yielded == SelectSeq(SubSeq(stream, 1, pos), IsNonEmpty)

\* C18: the baseline never changes; every executed command is the baseline's
\* argv followed by the tokens accepted into that batch, with the baseline's
\* environment; and a batch starts from a builder equal to the baseline, so
\* from the baseline's arg_size_used and env_size_used.
C18_IndependentBaseline ==
    /\ [][basecmd' = basecmd]_vars
    /\ [](\A i \in 1..Len(executed) :
             /\ SubSeq(executed[i].argv, 1, BaseLen) = basecmd.argv
             /\ executed[i].env = into_command(basecmd, amb).env)
    /\ [](pc = "loop" =>
             /\ ConcatBatches(Len(executed)) \o CmdTokens
                   \o (IF item = <<>> THEN <<>> ELSE item) = Yielded
             /\ cmd.arg_size = basecmd.arg_size + ArgvCost(CmdTokens)
             /\ cmd.env_size = basecmd.env_size
             /\ ~pending => cmd = basecmd)

\* C18 witness: two different batches have run on a baseline with fixed
\* arguments and an inherited environment, and the third starts.
C18_Witness ==
    /\ pc = "loop"
    /\ Len(executed) = 2
    /\ executed[1] # executed[2]
    /\ ~pending
    /\ cmd = basecmd
    /\ BaseLen > 1
    /\ basecmd.env_size > 0

\* C19: every executed command holds at least one token beyond the
\* baseline, and a stream without tokens ends with no execution and
\* result 0.
C19_NoEmptyBatch ==
    /\ \A i \in 1..Len(executed) : Len(executed[i].argv) > BaseLen
    /\ SelectSeq(stream, IsNonEmpty) = <<>> =>
          /\ executed = <<>>
          /\ pc = "Done" => ret = Ok(0)

\* C19 witness: the run over an empty stream is done, nothing executed.
C19_Witness ==
    /\ pc = "Done"
    /\ stream = <<>>
    /\ executed = <<>>
    /\ ret = Ok(0)

\* C22: the loop always ends: while run() is in its loop, a turn of the loop
\* changes the state, so that no token is retried against the same builder
\* forever.
C22_NoEndlessRetry ==
    pc = "loop" => ENABLED <<XNext>>_vars

\* C23: env_size_used is the sum of env_pair_len over the environment the
\* child would receive; replacing a value changes it by the difference of the
\* value sizes, and setting a key that holds an explicit unset adds the pair
\* cost.
C23_ExactEnvAccounting ==
    /\ b.env_size = vars_os_size(into_command(b, amb).env)
    /\ (Replacing /\ res = "Ok") =>
          b.env_size = before.env_size + env_val_len(op.val)
                          - env_val_len(Replaced)
    /\ (/\ op.name = "env"
        /\ res = "Ok"
        /\ op.key \in DOMAIN before.env
        /\ before.env[op.key] = <<>>)
          => b.env_size = before.env_size + env_pair_len(op.key, op.val)

----------------------------------------------------------------------------
(* Claims about the tokenizer *)

\* the iterator has ended on end-of-tokens or on malformed input
TEnded == tpc \in {"None", "unterminated quote", "backslash at EOF"}

\* C16: no token is empty, and the input a 'b c' d\ e "f g" yields the
\* tokens a, b c, d e, f g and then end-of-tokens.
C16_QuotingRules ==
    /\ \A i \in 1..Len(yielded) : yielded[i] # <<>>
    /\ (input = QuotedInput /\ TEnded) =>
          /\ tpc = "None"
          /\ yielded = << <<97>>, <<98, 32, 99>>, <<100, 32, 101>>,
                          <<102, 32, 103>> >>

\* where the quoting rules stand after the bytes of s, read from mode
RECURSIVE LexEnd(_, _)
LexEnd(s, mode) ==
    IF s = <<>> THEN mode
    ELSE LexEnd(Tail(s),
            CASE mode = "escape" -> "plain"
              [] mode = "single" ->
                    IF Head(s) = SQuote THEN "plain"
                    ELSE IF Head(s) = Newline THEN "failed" ELSE "single"
              [] mode = "double" ->
                    IF Head(s) = DQuote THEN "plain"
                    ELSE IF Head(s) = Newline THEN "failed" ELSE "double"
              [] mode = "failed" -> "failed"
              [] OTHER ->
                    IF Head(s) = Backslash THEN "escape"
                    ELSE IF Head(s) = SQuote THEN "single"
                    ELSE IF Head(s) = DQuote THEN "double" ELSE "plain")

\* C17: when the stream ends inside an open quote or right after an
\* unescaped backslash, the iterator ends on a malformed-input failure, not
\* on end-of-tokens.
C17_OpenAtEndFails ==
    (TEnded /\ LexEnd(input, "plain") \in {"escape", "single", "double"})
       => tpc \in {"unterminated quote", "backslash at EOF"}

----------------------------------------------------------------------------
(* Claims about the default limits *)

\* query results below r: the sampled value before it, the values just
\* under it, and the ends of the range
Below(r) ==
    {q \in {-1, 0, 1, r - 1, r - 2, r - 1022, r - 1024, r - 4096} : q <= r}

\* C21: the default never fails, and its arg_size is
\* max(max(min(ARG_MAX, queried), 4096) - 4096, 2048): at least 2048, at most
\* ARG_MAX - 4096, non-decreasing in the queried value, and 2048 when the
\* query yields nothing.
C21_DefaultInRange ==
    dflt # <<>> =>
       LET top == IF target_os = "linux" THEN 131072 ELSE 2097152
           size == dflt[1].val.arg_size
       IN /\ dflt[1].ok
          /\ size = Max(Max(Min(top, sc_arg_max), 4096) - 4096, 2048)
          /\ size > 0
          /\ size >= 2048
          /\ size <= top - 4096
          /\ sc_arg_max <= 0 => size = 2048
          /\ \A r \in Below(sc_arg_max) :
                default_arg_max(target_os, r) <= size

\* C21 witness: the default was computed from a query result strictly
\* between the two clamps, and from nothing reserved beyond the margin.
C21_Witness ==
    /\ dflt # <<>>
    /\ dflt[1].ok
    /\ sc_arg_max = 8 * 1024 + 1
    /\ dflt[1].val.arg_size = 4 * 1024 + 1

\* what repeated calls return when the bytes of inp after the first p reach
\* the reader in one buffer: the tokens, after those of out, and how the
\* iterator ends
RECURSIVE single_buffer(_, _, _)
single_buffer(inp, p, out) ==
    IF p >= Len(inp) THEN [tokens |-> out, end |-> "None"]
    ELSE LET l == for_buffer(SubSeq(inp, p + 1, Len(inp)), 1, Locals) IN
         IF l.err THEN [tokens |-> out, end |-> "unterminated quote"]
         ELSE IF l.complete
         THEN single_buffer(inp, p + l.consumed, Append(out, l.item))
         ELSE IF l.single \/ l.double
         THEN [tokens |-> out, end |-> "unterminated quote"]
         ELSE IF l.escape THEN [tokens |-> out, end |-> "backslash at EOF"]
         ELSE IF l.item = <<>> THEN [tokens |-> out, end |-> "None"]
         ELSE [tokens |-> Append(out, l.item), end |-> "None"]

IsPrefix(s, t) == Len(s) <= Len(t) /\ s = SubSeq(t, 1, Len(s))

\* C24: however the reads split the stream, the tokens returned are those
\* of the stream delivered in one buffer, and the iterator ends the same way.
C24_ChunkIndependent ==
    LET whole == single_buffer(input, 0, <<>>) IN
    /\ IsPrefix(yielded, whole.tokens)
    /\ TEnded => (yielded = whole.tokens /\ tpc = whole.end)

====
